---- MODULE Spec2Model ----
(***************************************************************************)
(* A model of read_bovespa.py: the fixed-width field reader (read_from,    *)
(* read_n), the converters (read_date, read_float, int), the record        *)
(* decoder (read_bovespa_record), the one-element lookahead generator      *)
(* (skip_last) and the file decoder (read_bovespa_file).                   *)
(*                                                                         *)
(* A Python str is modelled as a sequence of one-character strings, so     *)
(* that slicing, stripping and matching are computed character by          *)
(* character.  An exception is a record [type, msg, data]: msg is the      *)
(* message template and data the string interpolated into it.              *)
(***************************************************************************)
EXTENDS Integers, Sequences, FiniteSets, TLC

VARIABLES
    \* ---- field reader (read_from / read_n) ----
    string,        \* the str wrapped by read_from
    it,            \* iter(string): the number of characters already taken
    out,           \* the str returned by the last read(n)
    raw,           \* the characters taken by the last call, before strip()
    calls,         \* the widths n of the calls made so far
    \* ---- read_float ----
    value,         \* the argument of read_float
    after_comma,   \* its scale argument
    fres,          \* its outcome
    \* ---- read_bovespa_record ----
    line,          \* the argument of read_bovespa_record
    frame,         \* its locals: statement counter, cursor, record, exception
    \* ---- read_bovespa_file / skip_last ----
    bovespa_file,  \* the file object: [lines, pos, closed]
    pc,            \* position in read_bovespa_file
    gen,           \* the skip_last generator: [state, next_value, element]
    rows,          \* the records produced so far by the generator expression
    result,        \* what the call gave its caller
    trace          \* observations: reads of the file, yields, decoder calls

readerVars == <<string, it, out, raw, calls>>
floatVars  == <<value, after_comma, fres>>
recordVars == <<line, frame>>
fileVars   == <<bovespa_file, pc, gen, rows, result, trace>>
vars       == <<readerVars, floatVars, recordVars, fileVars>>

-----------------------------------------------------------------------------
(* Bounds of the model.                                                    *)

MaxStringLen == 4   \* longest str given to the field reader
MaxWidth     == 3   \* largest n of a read(n) / skip(n) call
MaxCalls     == 3   \* calls made on one field reader
MaxValueLen  == 4   \* longest str given to read_float
MaxScale     == 3   \* largest after_comma given to read_float
MaxLines     == 5   \* most lines in a file
LineLen      == 245 \* length of a full record line of the input format

-----------------------------------------------------------------------------
(* Characters and strings.                                                 *)

Min(a, b) == IF a < b THEN a ELSE b

Digit == {"0", "1", "2", "3", "4", "5", "6", "7", "8", "9"}

DigitValue(c) ==
    CASE c = "0" -> 0 [] c = "1" -> 1 [] c = "2" -> 2 [] c = "3" -> 3
      [] c = "4" -> 4 [] c = "5" -> 5 [] c = "6" -> 6 [] c = "7" -> 7
      [] c = "8" -> 8 [] c = "9" -> 9

\* The characters str.strip() removes, among those the model draws from.
Whitespace == {" ", "\n"}

\* s[i:j] of Python, for 0 <= i and any j (clamped to the string).
Slice(s, i, j) == SubSeq(s, i + 1, Min(j, Len(s)))

IsDigits(s) == \A i \in 1..Len(s) : s[i] \in Digit

\* The value of a digit string read in base 10 (0 for the empty string).
RECURSIVE IntOfDigits(_)
IntOfDigits(s) ==
    IF Len(s) = 0 THEN 0
    ELSE 10 * IntOfDigits(SubSeq(s, 1, Len(s) - 1)) + DigitValue(s[Len(s)])

RECURSIVE Pow10(_)
Pow10(k) == IF k = 0 THEN 1 ELSE 10 * Pow10(k - 1)

RECURSIVE Sum(_)
Sum(ns) == IF Len(ns) = 0 THEN 0 ELSE ns[1] + Sum(Tail(ns))

MinOf(S) == CHOOSE i \in S : \A j \in S : i <= j
MaxOf(S) == CHOOSE i \in S : \A j \in S : j <= i

\* s[lo..hi] for the set of positions to keep ('' when there is none).
Trim(s, keep) == IF keep = {} THEN <<>> ELSE SubSeq(s, MinOf(keep), MaxOf(keep))

\* str.strip(): drop leading and trailing whitespace.
strip(s) == Trim(s, {i \in 1..Len(s) : s[i] \notin Whitespace})

\* s[i-1] of Python, '' outside the string.
CharAt(s, i) == IF 1 <= i /\ i <= Len(s) THEN s[i] ELSE ""

\* All sequences over S of length at most n.
SeqsUpTo(S, n) == UNION {[1..k -> S] : k \in 0..n}

-----------------------------------------------------------------------------
(* Exceptions.                                                             *)

ValueError(msg, data) == [type |-> "ValueError", msg |-> msg, data |-> data]
NoException == [type |-> "none", msg |-> "", data |-> <<>>]

-----------------------------------------------------------------------------
(* Field reader: read_n(n, iterator).                                      *)

\* The result of a read that took the characters `taken` at cursor pos.
Taken(taken, pos) ==
    [str |-> strip(taken), raw |-> taken, pos |-> pos + Len(taken)]

\* A reader that moves the cursor by n even when fewer characters remain.
read_n_unclamped(n, s, pos) ==
    [str |-> strip(Slice(s, pos, pos + n)), raw |-> Slice(s, pos, pos + n),
     pos |-> pos + n]

\* ''.join([next(iterator, '') for _ in range(n)]).strip(): the str returned,
\* the characters taken from the iterator (raw) and the iterator after them.
\* An exhausted iterator gives '' and stays where it is.
read_n(n, s, pos) == Taken(Slice(s, pos, pos + n), pos)

-----------------------------------------------------------------------------
(* Outcomes of a call: a value returned, or an exception raised.           *)

None == [t |-> "None", v |-> <<>>]
Return(v) == [ok |-> TRUE,  val |-> v,    exc |-> NoException]
Raise(e)  == [ok |-> FALSE, val |-> None, exc |-> e]

\* Python values: a float is kept exact, as the fraction num/den.
StrVal(s)          == [t |-> "str",   v |-> s]
IntVal(n)          == [t |-> "int",   v |-> <<n>>]
FloatVal(num, den) == [t |-> "float", v |-> <<num, den>>]
DateVal(y, m, d)   == [t |-> "date",  v |-> <<y, m, d>>]

-----------------------------------------------------------------------------
(* Converters.                                                             *)

Sign == {"-", "+"}

\* The sign a numeric text starts with ("" for none), and the text after it.
SignOf(s)   == IF CharAt(s, 1) \in Sign THEN s[1] ELSE ""
Unsigned(s) == IF CharAt(s, 1) \in Sign THEN Tail(s) ELSE s
Signed(sign, n) == IF sign = "-" THEN 0 - n ELSE n

FloatError(text) == Raise(ValueError("could not convert string to float: %r", text))

\* The float written as ip '.' fp: both digit strings, not both empty.
FloatOfParts(text, sign, ip, fp) ==
    IF IsDigits(ip) /\ IsDigits(fp) /\ Len(ip) + Len(fp) > 0
    THEN Return(FloatVal(Signed(sign, IntOfDigits(ip) * Pow10(Len(fp))
                                          + IntOfDigits(fp)),
                         Pow10(Len(fp))))
    ELSE FloatError(text)

\* The float written as body, whose '.' are at the positions dots.
FloatOfBody(text, sign, body, dots) ==
    IF dots = {} THEN FloatOfParts(text, sign, body, <<>>)
    ELSE IF Cardinality(dots) > 1 THEN FloatError(text)
    ELSE FloatOfParts(text, sign, SubSeq(body, 1, MinOf(dots) - 1),
                      SubSeq(body, MinOf(dots) + 1, Len(body)))

FloatOfUnsigned(text, sign, body) ==
    FloatOfBody(text, sign, body, {i \in 1..Len(body) : body[i] = "."})

\* float(text) for a text over digits, signs, '.', whitespace and characters
\* that occur in no float literal: surrounding whitespace is dropped, one
\* leading sign is allowed, then digits with at most one '.', and at least
\* one digit.
float(text) ==
    FloatOfUnsigned(text, SignOf(strip(text)), Unsigned(strip(text)))

DefaultAfterComma == 2

\* read_float(value, after_comma): value[:-after_comma] and
\* value[-after_comma:] joined by '.', given to float().  -0 is 0, so with
\* after_comma = 0 the integral part is value[:0] and the fractional part
\* value[0:].
read_float(v, k) ==
    float((IF k = 0 THEN <<>> ELSE Slice(v, 0, Len(v) - k))
          \o <<".">>
          \o (IF k = 0 THEN v
              ELSE Slice(v, IF Len(v) > k THEN Len(v) - k ELSE 0, Len(v))))

IntOfUnsigned(text, sign, body) ==
    IF Len(body) > 0 /\ IsDigits(body)
    THEN Return(IntVal(Signed(sign, IntOfDigits(body))))
    ELSE Raise(ValueError("invalid literal for int() with base 10: %r", text))

\* int(text) for a text over the same characters: surrounding whitespace
\* is dropped, one leading sign is allowed, then at least one digit.
int(text) == IntOfUnsigned(text, SignOf(strip(text)), Unsigned(strip(text)))

NonZeroDigit == Digit \ {"0"}

\* The length the %d group matches where the next characters are a and b
\* (0: no match), by the first alternative of
\* 3[0-1]|[1-2]\d|0[1-9]|[1-9]| [1-9] that matches.
DayMatchOf(a, b) ==
    IF a = "3" /\ b \in {"0", "1"} THEN 2
    ELSE IF a \in {"1", "2"} /\ b \in Digit THEN 2
    ELSE IF a = "0" /\ b \in NonZeroDigit THEN 2
    ELSE IF a \in NonZeroDigit THEN 1
    ELSE IF a = " " /\ b \in NonZeroDigit THEN 2
    ELSE 0

DayMatch(s, p) == DayMatchOf(CharAt(s, p + 1), CharAt(s, p + 2))

\* The length the %m group 1[0-2]|0[1-9]|[1-9] matches at s[4:] (0: no
\* match): the first alternative after which the %d group matches.
MonthMatchOf(s, a, b) ==
    IF /\ \/ a = "1" /\ b \in {"0", "1", "2"}
          \/ a = "0" /\ b \in NonZeroDigit
       /\ DayMatch(s, 6) > 0
    THEN 2
    ELSE IF a \in NonZeroDigit /\ DayMatch(s, 5) > 0 THEN 1
    ELSE 0

MonthMatch(s) == MonthMatchOf(s, CharAt(s, 5), CharAt(s, 6))

IsLeap(y) == y % 4 = 0 /\ (y % 100 # 0 \/ y % 400 = 0)

DaysInMonth(y, m) ==
    IF m = 2 THEN (IF IsLeap(y) THEN 29 ELSE 28)
    ELSE IF m \in {4, 6, 9, 11} THEN 30 ELSE 31

\* datetime.date(year, month, day) for a month in 1..12 and a day >= 1.
DateOf(year, month, day) ==
    IF year = 0 THEN Raise(ValueError("year 0 is out of range", <<>>))
    ELSE IF day > DaysInMonth(year, month)
    THEN Raise(ValueError("day is out of range for month", <<>>))
    ELSE Return(DateVal(year, month, day))

\* The date of a match whose month group has mlen characters and which ends
\* at `end`: characters left after the match are an error.
DateOfMatch(s, mlen, end) ==
    IF end # Len(s)
    THEN Raise(ValueError("unconverted data remains: %s",
                          SubSeq(s, end + 1, Len(s))))
    ELSE DateOf(IntOfDigits(SubSeq(s, 1, 4)),
                IntOfDigits(SubSeq(s, 5, 4 + mlen)),
                IntOfDigits(strip(SubSeq(s, 5 + mlen, end))))

DateOfMonth(s, mlen) ==
    IF mlen = 0
    THEN Raise(ValueError("time data %r does not match format %r", s))
    ELSE DateOfMatch(s, mlen, 4 + mlen + DayMatch(s, 4 + mlen))

\* read_date(date_string): datetime.strptime(date_string, "%Y%m%d").date().
\* The format compiles to (\d\d\d\d)(1[0-2]|0[1-9]|[1-9])(3[0-1]|...| [1-9]),
\* matched at the start of the string with backtracking over the month;
\* characters left after the match are an error, and so is a day or a year
\* outside the calendar.
read_date(date_string) ==
    IF Len(date_string) >= 4 /\ IsDigits(SubSeq(date_string, 1, 4))
    THEN DateOfMonth(date_string, MonthMatch(date_string))
    ELSE Raise(ValueError("time data %r does not match format %r", date_string))

-----------------------------------------------------------------------------
(* Record decoder: read_bovespa_record(line).                              *)

\* The statements of read_bovespa_record between `record = OrderedDict()`
\* and `return record`, in program order: skip(n), or
\* record[name] = conv(read(n)).
Statements ==
    << [name |-> "_",                   n |->  2, conv |-> "skip"  ],
       [name |-> "date",                n |->  8, conv |-> "date"  ],
       [name |-> "_",                   n |->  2, conv |-> "skip"  ],
       [name |-> "symbol",              n |-> 12, conv |-> "str"   ],
       [name |-> "_",                   n |->  3, conv |-> "skip"  ],
       [name |-> "company_name",        n |-> 12, conv |-> "str"   ],
       [name |-> "type",                n |-> 10, conv |-> "str"   ],
       [name |-> "_",                   n |->  3, conv |-> "skip"  ],
       [name |-> "currency",            n |->  4, conv |-> "str"   ],
       [name |-> "open",                n |-> 13, conv |-> "float" ],
       [name |-> "high",                n |-> 13, conv |-> "float" ],
       [name |-> "low",                 n |-> 13, conv |-> "float" ],
       [name |-> "mean",                n |-> 13, conv |-> "float" ],
       [name |-> "close",               n |-> 13, conv |-> "float" ],
       [name |-> "_",                   n |-> 13, conv |-> "skip"  ],
       [name |-> "_",                   n |-> 13, conv |-> "skip"  ],
       [name |-> "_",                   n |->  5, conv |-> "skip"  ],
       [name |-> "quantity",            n |-> 18, conv |-> "int"   ],
       [name |-> "volume",              n |-> 18, conv |-> "float" ],
       [name |-> "option_strike_price", n |-> 13, conv |-> "float" ],
       [name |-> "_",                   n |->  1, conv |-> "skip"  ],
       [name |-> "option_expiry_date",  n |->  8, conv |-> "date"  ] >>

\* The converter a statement applies to the str it read.
Convert(conv, s) ==
    CASE conv = "date"  -> read_date(s)
      [] conv = "float" -> read_float(s, DefaultAfterComma)
      [] conv = "int"   -> int(s)
      [] conv = "str"   -> Return(StrVal(s))

\* A mapping that puts a new key first.
SetItem_prepend(record, key, val) ==
    <<[key |-> key, val |-> val]>> \o record

\* record[key] = val on an OrderedDict kept as a sequence of items: a new
\* key goes to the end, a key already there keeps its place.
SetItem(record, key, val) ==
    IF \E i \in 1..Len(record) : record[i].key = key
    THEN [i \in 1..Len(record) |->
             IF record[i].key = key THEN [key |-> key, val |-> val]
             ELSE record[i]]
    ELSE Append(record, [key |-> key, val |-> val])

Keys(record) == [i \in 1..Len(record) |-> record[i].key]

\* The locals of a call on entry: read = read_from(line), record empty.
\* stmt is the next statement; arg is the str last handed to a converter.
NewFrame ==
    [state |-> "running", stmt |-> 1, pos |-> 0, record |-> <<>>,
     arg |-> <<>>, exc |-> NoException]

IdleFrame == [NewFrame EXCEPT !.state = "idle"]

\* record[name] = c for the outcome c of the converter, after the read r.
\* Here a converter that raises stores nothing and the call goes on.
Assign_lenient(st, fr, r, c) ==
    [fr EXCEPT !.stmt = @ + 1, !.pos = r.pos, !.arg = r.str,
               !.record = IF c.ok THEN SetItem(@, st.name, c.val) ELSE @]

\* record[name] = c for the outcome c of the converter, after the read r:
\* a converter that raises ends the call with its exception, the statement
\* counter staying on the statement.
Assign(st, fr, r, c) ==
    IF c.ok
    THEN [fr EXCEPT !.stmt = @ + 1, !.pos = r.pos, !.arg = r.str,
                    !.record = SetItem(@, st.name, c.val)]
    ELSE [fr EXCEPT !.state = "raised", !.pos = r.pos, !.arg = r.str,
                    !.exc = c.exc]

\* The statement st after its read r: a skip only moves the cursor.
AfterRead(st, fr, r) ==
    IF st.conv = "skip" THEN [fr EXCEPT !.stmt = @ + 1, !.pos = r.pos]
    ELSE Assign(st, fr, r, Convert(st.conv, r.str))

\* One statement of the call on line ln.
ExecStatement(st, ln, fr) == AfterRead(st, fr, read_n(st.n, ln, fr.pos))

\* The call run to its end.
RECURSIVE RunFrame(_, _)
RunFrame(ln, fr) ==
    IF fr.state # "running" THEN fr
    ELSE IF fr.stmt > Len(Statements) THEN [fr EXCEPT !.state = "returned"]
    ELSE RunFrame(ln, ExecStatement(Statements[fr.stmt], ln, fr))

Dict(record) == [t |-> "dict", v |-> record]

\* What a call that ended with the locals fr gives its caller.
Outcome(fr) ==
    IF fr.state = "returned" THEN Return(Dict(fr.record)) ELSE Raise(fr.exc)

read_bovespa_record(ln) == Outcome(RunFrame(ln, NewFrame))

-----------------------------------------------------------------------------
(* The file object, skip_last and the body of read_bovespa_file.           *)

\* A line read from the file, with its number in the file.
NoElement == [idx |-> 0, text |-> <<>>]

Event(ev, idx, f) == [ev |-> ev, idx |-> idx, open |-> f.state = "open"]

\* next(bovespa_file): the next line, or StopIteration at the end of the
\* file.  The read is noted with the state the file was in.
FileNext(f) ==
    IF f.pos < Len(f.lines)
    THEN [stop |-> FALSE,
          elem |-> [idx |-> f.pos + 1, text |-> f.lines[f.pos + 1]],
          file |-> [f EXCEPT !.pos = @ + 1],
          events |-> <<Event("read", f.pos + 1, f)>>]
    ELSE [stop |-> TRUE, elem |-> NoElement, file |-> f,
          events |-> <<Event("read", 0, f)>>]

\* A header line that is left in the file.
readline_noop(f) == f

\* bovespa_file.readline(), its result dropped: one line consumed, none at
\* the end of the file.
readline(f) == FileNext(f).file

\* A with block that leaves the file as it is.
ExitWith_leak(f) == f

\* Leaving the with block, by return or by exception: the file is closed.
ExitWith(f) == [f EXCEPT !.state = "closed"]

DataFrame(rs) == [t |-> "DataFrame", v |-> rs]

\* An exception caught on the way out, the rows read so far returned.
Unwind_partial(rs, e) == Return(DataFrame(rs))

\* An exception raised while pd.DataFrame(records) consumes the generator
\* leaves read_bovespa_file: the rows read so far are dropped.
Unwind(rs, e) == Raise(e)

NewGenerator == [state |-> "created", next_value |-> NoElement,
                 element |-> NoElement]

Finished(g) == [g EXCEPT !.state = "finished"]

\* A first next() that ends the generator quietly on an empty iterator.
skip_last_first_quiet(g, f) ==
    LET nx == FileNext(f)
    IN  [gen |-> IF nx.stop THEN Finished(g)
                 ELSE [g EXCEPT !.next_value = nx.elem],
         file |-> nx.file, events |-> nx.events,
         out |-> IF nx.stop THEN "return" ELSE "go", val |-> NoElement,
         exc |-> NoException]

\* next_value = next(iterator); StopIteration becomes
\* ValueError("Iterator is empty").
skip_last_first(g, f) ==
    LET nx == FileNext(f)
    IN  [gen |-> IF nx.stop THEN Finished(g)
                 ELSE [g EXCEPT !.next_value = nx.elem],
         file |-> nx.file, events |-> nx.events,
         out |-> IF nx.stop THEN "raise" ELSE "go", val |-> NoElement,
         exc |-> IF nx.stop THEN ValueError("Iterator is empty", <<>>)
                 ELSE NoException]

\* A loop that yields the element just read instead of the pending one.
skip_last_loop_yield_element(g, f) ==
    LET nx == FileNext(f)
    IN  IF nx.stop
        THEN [gen |-> Finished(g), file |-> nx.file, events |-> nx.events,
              out |-> "return", val |-> NoElement, exc |-> NoException]
        ELSE [gen |-> [g EXCEPT !.state = "suspended", !.element = nx.elem],
              file |-> nx.file,
              events |-> nx.events \o <<Event("yield", nx.elem.idx, nx.file)>>,
              out |-> "yield", val |-> nx.elem, exc |-> NoException]

\* A loop that raises the empty-iterator error when it ends having yielded
\* nothing.
skip_last_loop_strict(g, f) ==
    LET nx == FileNext(f)
    IN  IF nx.stop
        THEN [gen |-> Finished(g), file |-> nx.file, events |-> nx.events,
              out |-> IF g.state = "created" THEN "raise" ELSE "return",
              val |-> NoElement,
              exc |-> IF g.state = "created"
                      THEN ValueError("Iterator is empty", <<>>)
                      ELSE NoException]
        ELSE [gen |-> [g EXCEPT !.state = "suspended", !.element = nx.elem],
              file |-> nx.file,
              events |-> nx.events \o <<Event("yield", g.next_value.idx, nx.file)>>,
              out |-> "yield", val |-> g.next_value, exc |-> NoException]

\* for element in iterator: yield next_value -- one turn of the loop, from
\* its head to the yield (g.next_value is the pending element).  At the end
\* of the iterator the generator returns and the pending element is dropped.
skip_last_loop(g, f) ==
    LET nx == FileNext(f)
    IN  IF nx.stop
        THEN [gen |-> Finished(g), file |-> nx.file, events |-> nx.events,
              out |-> "return", val |-> NoElement, exc |-> NoException]
        ELSE [gen |-> [g EXCEPT !.state = "suspended", !.element = nx.elem],
              file |-> nx.file,
              events |-> nx.events \o <<Event("yield", g.next_value.idx, nx.file)>>,
              out |-> "yield", val |-> g.next_value, exc |-> NoException]

\* next() on the skip_last generator: run it to its next yield, its return
\* or its exception.  Resumed after a yield it first does
\* next_value = element.
skip_last_next(g, f) ==
    IF g.state = "created"
    THEN LET a == skip_last_first(g, f)
             b == skip_last_loop(a.gen, a.file)
         IN  IF a.out = "go" THEN [b EXCEPT !.events = a.events \o @] ELSE a
    ELSE skip_last_loop([g EXCEPT !.next_value = g.element], f)

-----------------------------------------------------------------------------
(* Values the idle parts of the state keep while another part runs.        *)

IdleReader == string = <<>> /\ it = 0 /\ out = <<>> /\ raw = <<>> /\ calls = <<>>
IdleFloat  == value = <<>> /\ after_comma = 0 /\ fres = <<>>
IdleRecord == line = <<>> /\ frame = IdleFrame
IdleFile   == /\ bovespa_file = [lines |-> <<>>, pos |-> 0, state |-> "none"]
              /\ pc = "idle" /\ gen = NewGenerator
              /\ rows = <<>> /\ result = <<>> /\ trace = <<>>

-----------------------------------------------------------------------------
(* The field reader on its own: read = read_from(string); read(n); ...     *)

ReaderAlphabet == {"a", " "}

InitReader ==
    /\ string \in SeqsUpTo(ReaderAlphabet, MaxStringLen)
    /\ it = 0 /\ out = <<>> /\ raw = <<>> /\ calls = <<>>
    /\ IdleFloat /\ IdleRecord /\ IdleFile

\* x = read(n)
Read(n) ==
    /\ Len(calls) < MaxCalls
    /\ LET r == read_n(n, string, it)
       IN  it' = r.pos /\ out' = r.str /\ raw' = r.raw
    /\ calls' = Append(calls, [op |-> "read", n |-> n])
    /\ UNCHANGED <<string, floatVars, recordVars, fileVars>>

\* skip(n): skip = read, the result is dropped
Skip(n) ==
    /\ Len(calls) < MaxCalls
    /\ LET r == read_n(n, string, it)
       IN  it' = r.pos /\ raw' = r.raw
    /\ calls' = Append(calls, [op |-> "skip", n |-> n])
    /\ UNCHANGED <<string, out, floatVars, recordVars, fileVars>>

NextReader == \E n \in 0..MaxWidth : Read(n) \/ Skip(n)

SpecReader == InitReader /\ [][NextReader]_vars

Widths(cs) == [i \in 1..Len(cs) |-> cs[i].n]

\* C10: every read(n)/skip(n) takes exactly min(n, remaining) characters
\* from the cursor position, so after calls n1..nk the cursor is at
\* min(L, n1+...+nk) whatever the characters are; stripping changes only the
\* returned str; a read with nothing left returns ''; skip moves the cursor
\* as read does.
C10_ReaderCursor ==
    /\ it = Min(Len(string), Sum(Widths(calls)))
    /\ Len(calls) > 0 =>
         LET last   == calls[Len(calls)]
             before == Min(Len(string),
                           Sum(Widths(SubSeq(calls, 1, Len(calls) - 1))))
         IN  /\ Len(raw) = Min(last.n, Len(string) - before)
             /\ raw = SubSeq(string, before + 1, before + Len(raw))
             /\ it = before + Len(raw)
             /\ last.op = "read" => out = strip(raw)
             /\ (last.op = "read" /\ before = Len(string)) => out = <<>>

\* A short read, then a call with nothing left, on a string holding a blank.
C10_Witness ==
    /\ Len(calls) >= 2
    /\ Len(string) > 0 /\ \E i \in 1..Len(string) : string[i] = " "
    /\ Sum(Widths(calls)) > Len(string)
    /\ calls[Len(calls)].n > 0 /\ raw = <<>>
    /\ \E i \in 1..Len(calls) : calls[i].op = "skip"
    /\ \E i \in 1..Len(calls) : calls[i].op = "read"

-----------------------------------------------------------------------------
(* Input lines: the inverse of the layout.  A field is a core text padded  *)
(* to the width of its statement, on the left (numbers) or the right.      *)

Pad(f, w) ==
    LET fill == [i \in 1..(w - Len(f.core)) |-> f.pad]
    IN  IF Len(f.core) >= w THEN SubSeq(f.core, 1, w)
        ELSE IF f.side = "L" THEN fill \o f.core ELSE f.core \o fill

RECURSIVE Concat(_)
Concat(ss) == IF Len(ss) = 0 THEN <<>> ELSE ss[1] \o Concat(Tail(ss))

\* One field text per statement: a "type 01" quote record.
BaseFields ==
    << [core |-> <<"0", "1">>, side |-> "R", pad |-> " "],
       [core |-> <<"2", "0", "2", "3", "0", "6", "1", "5">>, side |-> "R", pad |-> " "],
       [core |-> <<"0", "2">>, side |-> "R", pad |-> " "],
       [core |-> <<"P", "E", "T", "R", "4">>, side |-> "R", pad |-> " "],
       [core |-> <<"0", "1", "0">>, side |-> "R", pad |-> " "],
       [core |-> <<"P", "E", "T", "R", "O", "B", "R", "A", "S">>, side |-> "R", pad |-> " "],
       [core |-> <<"P", "N", " ", " ", " ", " ", " ", " ", "N", "2">>, side |-> "R", pad |-> " "],
       [core |-> <<>>, side |-> "R", pad |-> " "],
       [core |-> <<"R", "$">>, side |-> "R", pad |-> " "],
       [core |-> <<"3", "0", "1", "2">>, side |-> "L", pad |-> "0"],
       [core |-> <<"3", "0", "5", "5">>, side |-> "L", pad |-> "0"],
       [core |-> <<"2", "9", "9", "0">>, side |-> "L", pad |-> "0"],
       [core |-> <<"3", "0", "2", "1">>, side |-> "L", pad |-> "0"],
       [core |-> <<"3", "0", "4", "0">>, side |-> "L", pad |-> "0"],
       [core |-> <<"3", "0", "3", "9">>, side |-> "L", pad |-> "0"],
       [core |-> <<"3", "0", "4", "1">>, side |-> "L", pad |-> "0"],
       [core |-> <<"1", "2", "3", "4", "5">>, side |-> "L", pad |-> "0"],
       [core |-> <<"1", "5", "0", "0">>, side |-> "L", pad |-> "0"],
       [core |-> <<"4", "5", "3", "1", "5", "0", "0">>, side |-> "L", pad |-> "0"],
       [core |-> <<"0">>, side |-> "L", pad |-> "0"],
       [core |-> <<"0">>, side |-> "L", pad |-> "0"],
       [core |-> <<"9", "9", "9", "9", "1", "2", "3", "1">>, side |-> "R", pad |-> " "] >>

\* Other texts a field of each kind may hold.
Variants(conv) ==
    CASE conv = "date" ->
        {[core |-> <<"2", "0", "2", "3", "0", "6", "1", "5">>, side |-> "R", pad |-> " "],
         [core |-> <<"2", "0", "2", "3", "1", "3", "3", "2">>, side |-> "R", pad |-> " "],
         [core |-> <<"2", "0", "2", "3", "0", "2", "3", "1">>, side |-> "R", pad |-> " "],
         [core |-> <<>>, side |-> "R", pad |-> " "],
         [core |-> <<"2", "0", "2", "3", "6", "1", "5">>, side |-> "R", pad |-> " "]}
      [] conv = "float" ->
        {[core |-> <<"1", "2", "3", "4">>, side |-> "L", pad |-> "0"],
         [core |-> <<>>, side |-> "L", pad |-> " "],
         [core |-> <<"5">>, side |-> "L", pad |-> " "],
         [core |-> <<"-", "1", "2", "3", "4">>, side |-> "L", pad |-> " "],
         [core |-> <<"1", "2", "x", "4">>, side |-> "L", pad |-> "0"]}
      [] conv = "int" ->
        {[core |-> <<"1", "5", "0", "0">>, side |-> "L", pad |-> "0"],
         [core |-> <<>>, side |-> "L", pad |-> " "],
         [core |-> <<"-", "1", "5">>, side |-> "L", pad |-> " "],
         [core |-> <<"1", " ", "5">>, side |-> "L", pad |-> "0"]}
      [] conv = "str" ->
        {[core |-> <<"V", "A", "L", "E", "3">>, side |-> "R", pad |-> " "],
         [core |-> <<>>, side |-> "R", pad |-> " "],
         [core |-> <<" ", "A", " ", "B">>, side |-> "R", pad |-> " "]}
      [] conv = "skip" ->
        {[core |-> <<>>, side |-> "R", pad |-> " "],
         [core |-> <<"x", "x", "x", "x", "x", "x", "x", "x", "x", "x", "x", "x", "x", "x", "x", "x", "x", "x">>, side |-> "R", pad |-> " "]}

\* What follows the last field read, up to the length of a full line.
Filler == [i \in 1..(LineLen - Sum([j \in 1..Len(Statements) |-> Statements[j].n]))
              |-> "0"]

\* The line holding text f in field i and the base text in the others.
BuildLine(i, f) ==
    Concat([j \in 1..Len(Statements) |->
               Pad(IF j = i THEN f ELSE BaseFields[j], Statements[j].n)])
    \o Filler

\* Lengths at which a line may be cut short.
CutPoints == {0, 1, 9, 10, 60, 121, 160, 205, 209, 210}

-----------------------------------------------------------------------------
(* read_bovespa_record on its own, one statement at a time.                *)

InitRecord ==
    /\ \E i \in 1..Len(Statements) :
       \E f \in Variants(Statements[i].conv) :
       \E cut \in CutPoints \cup {LineLen} :
       \E eol \in {<<>>, <<"\n">>} :
          line = SubSeq(BuildLine(i, f), 1, cut) \o eol
    /\ frame = NewFrame
    /\ IdleReader /\ IdleFloat /\ IdleFile

Running == frame.state = "running" /\ frame.stmt <= Len(Statements)

\* skip(n)
SkipStatement ==
    /\ Running /\ Statements[frame.stmt].conv = "skip"
    /\ frame' = ExecStatement(Statements[frame.stmt], line, frame)
    /\ UNCHANGED <<line, readerVars, floatVars, fileVars>>

\* record[name] = conv(read(n))
FieldStatement ==
    /\ Running /\ Statements[frame.stmt].conv # "skip"
    /\ frame' = ExecStatement(Statements[frame.stmt], line, frame)
    /\ UNCHANGED <<line, readerVars, floatVars, fileVars>>

\* return record
ReturnRecord ==
    /\ frame.state = "running" /\ frame.stmt > Len(Statements)
    /\ frame' = [frame EXCEPT !.state = "returned"]
    /\ UNCHANGED <<line, readerVars, floatVars, fileVars>>

NextRecord == SkipStatement \/ FieldStatement \/ ReturnRecord

SpecRecord == InitRecord /\ [][NextRecord]_vars

\* The cursor before statement i of a call on ln, and the str it reads.
CursorBefore(ln, i) ==
    Min(Len(ln), Sum([j \in 1..(i - 1) |-> Statements[j].n]))
ArgOf(ln, i) == read_n(Statements[i].n, ln, CursorBefore(ln, i)).str

\* The names of the statements among the first k that store a field.
RECURSIVE NamesUpTo(_)
NamesUpTo(k) ==
    IF k = 0 THEN <<>>
    ELSE IF Statements[k].conv = "skip" THEN NamesUpTo(k - 1)
    ELSE Append(NamesUpTo(k - 1), Statements[k].name)

FieldNames ==
    <<"date", "symbol", "company_name", "type", "currency", "open", "high",
      "low", "mean", "close", "quantity", "volume", "option_strike_price",
      "option_expiry_date">>

\* C8: a line on which every field parses gives a mapping whose keys are
\* exactly the fourteen field names, inserted in layout order, whatever the
\* fields hold; while the call runs the keys stored are the names of the
\* statements executed, in order.
C8_KeyOrder ==
    /\ frame.state = "returned" =>
          /\ Keys(frame.record) = FieldNames
          /\ read_bovespa_record(line) = Return(Dict(frame.record))
    /\ frame.state = "running" =>
          Keys(frame.record) = NamesUpTo(frame.stmt - 1)

\* A record returned for a line that differs from the base line: a blank
\* text field, or a signed or short number.
C8_Witness ==
    /\ frame.state = "returned"
    /\ \E i \in 1..Len(frame.record) :
          /\ frame.record[i].val.t = "str"
          /\ frame.record[i].val.v = <<>>
    /\ line # BuildLine(1, BaseFields[1])

\* What an exception tells about the field it came from: a field name if it
\* has one, and the str it quotes.
Annotation(e) ==
    [field |-> IF "field" \in DOMAIN e THEN e.field ELSE "",
     raw   |-> e.data]

\* C6 as stated: the error of a failing converter reaches the caller
\* annotated with the name of the failing field and the raw substring read
\* for it.
C6_Annotated ==
    frame.state = "raised" =>
        Annotation(frame.exc) = [field |-> Statements[frame.stmt].name,
                                 raw   |-> ArgOf(line, frame.stmt)]

\* C6 as the code has it: the converter's own exception reaches the caller
\* unchanged, naming no field; the call stops at the failing statement, the
\* later fields unread, and returns no record, so a record returned means
\* every converter succeeded on the str read for it.
C6_Propagates ==
    /\ frame.state = "raised" =>
          LET st == Statements[frame.stmt]
          IN  /\ st.conv # "skip"
              /\ frame.arg = ArgOf(line, frame.stmt)
              /\ ~Convert(st.conv, frame.arg).ok
              /\ frame.exc = Convert(st.conv, frame.arg).exc
              /\ Annotation(frame.exc).field = ""
              /\ frame.pos = CursorBefore(line, frame.stmt + 1)
              /\ Keys(frame.record) = NamesUpTo(frame.stmt - 1)
              /\ read_bovespa_record(line) = Raise(frame.exc)
              /\ ~ENABLED NextRecord
    /\ frame.state = "returned" =>
          \A i \in 1..Len(Statements) :
             Statements[i].conv # "skip" =>
                Convert(Statements[i].conv, ArgOf(line, i)).ok

\* A converter failed after some fields were stored, on a str that its
\* message does not quote.
C6_Witness ==
    /\ frame.state = "raised"
    /\ Len(frame.record) > 0
    /\ frame.exc.data # frame.arg

-----------------------------------------------------------------------------
(* read_float on its own.                                                  *)

FloatAlphabet == {"0", "1", "5", "-", " ", "x"}

InitFloat ==
    /\ value \in SeqsUpTo(FloatAlphabet, MaxValueLen)
    /\ after_comma \in 0..MaxScale
    /\ fres = <<>>
    /\ IdleReader /\ IdleRecord /\ IdleFile

\* read_float(value, after_comma)
CallReadFloat ==
    /\ fres = <<>>
    /\ fres' = <<read_float(value, after_comma)>>
    /\ UNCHANGED <<value, after_comma, readerVars, recordVars, fileVars>>

NextFloat == CallReadFloat

SpecFloat == InitFloat /\ [][NextFloat]_vars

\* C7: read_float with scale k raises for every str shorter than k+1
\* characters or holding a non-digit, and for a digit string of at least k+1
\* characters returns int(digits) / 10^k.
C7_ReadFloatContract ==
    fres # <<>> =>
        IF Len(value) < after_comma + 1 \/ ~IsDigits(value)
        THEN ~fres[1].ok
        ELSE /\ fres[1].ok
             /\ fres[1].val.v[1] * Pow10(after_comma)
                    = IntOfDigits(value) * fres[1].val.v[2]

-----------------------------------------------------------------------------
(* read_bovespa_file(filename).                                            *)

\* A file's first and last line in the input format: no "type 01" record.
TrailerLine ==
    Pad([core |-> <<"9", "9", "C", "O", "T", "A", "H", "I", "S", "T", ".", "2", "0", "2", "3", "B", "O", "V", "E", "S", "P", "A", " ", "2", "0", "2", "3", "1", "2", "3", "1">>,
         side |-> "R", pad |-> " "], LineLen)

SampleLines ==
    { BuildLine(1, BaseFields[1]) \o <<"\n">>,
      BuildLine(4, [core |-> <<"V", "A", "L", "E", "3">>, side |-> "R",
                    pad |-> " "]) \o <<"\n">>,
      TrailerLine \o <<"\n">> }

Init ==
    /\ \E ls \in SeqsUpTo(SampleLines, MaxLines) :
          bovespa_file = [lines |-> ls, pos |-> 0, state |-> "unopened"]
    /\ pc = "call"
    /\ gen = NewGenerator
    /\ rows = <<>> /\ result = <<>> /\ trace = <<>>
    /\ IdleReader /\ IdleFloat /\ IdleRecord

\* with open(filename, 'r') as bovespa_file:
Open ==
    /\ pc = "call"
    /\ bovespa_file' = [bovespa_file EXCEPT !.state = "open"]
    /\ pc' = "with"
    /\ UNCHANGED <<gen, rows, result, trace, readerVars, floatVars, recordVars>>

\* bovespa_file.readline(); records = (... for line in skip_last(...)):
\* the header is consumed, the generators are created and not yet run.
ReadHeader ==
    /\ pc = "with"
    /\ bovespa_file' = readline(bovespa_file)
    /\ trace' = Append(trace, Event("readline", bovespa_file'.pos, bovespa_file))
    /\ gen' = NewGenerator
    /\ pc' = "DataFrame"
    /\ UNCHANGED <<rows, result, readerVars, floatVars, recordVars>>

\* pd.DataFrame(records) takes the next record: skip_last yields a line and
\* read_bovespa_record decodes it.
YieldRow ==
    /\ pc = "DataFrame"
    /\ LET r == skip_last_next(gen, bovespa_file)
           d == read_bovespa_record(r.val.text)
       IN  /\ r.out = "yield" /\ d.ok
           /\ gen' = r.gen
           /\ bovespa_file' = r.file
           /\ rows' = Append(rows, d.val)
           /\ trace' = trace \o r.events \o <<Event("decode", r.val.idx, r.file)>>
    /\ UNCHANGED <<pc, result, readerVars, floatVars, recordVars>>

\* ... skip_last yields a line and read_bovespa_record raises: the
\* exception leaves the with block and the function.
RowFails ==
    /\ pc = "DataFrame"
    /\ LET r == skip_last_next(gen, bovespa_file)
           d == read_bovespa_record(r.val.text)
       IN  /\ r.out = "yield" /\ ~d.ok
           /\ gen' = r.gen
           /\ bovespa_file' = ExitWith(r.file)
           /\ result' = <<Unwind(rows, d.exc)>>
           /\ trace' = trace \o r.events \o <<Event("decode", r.val.idx, r.file)>>
    /\ pc' = "done"
    /\ UNCHANGED <<rows, readerVars, floatVars, recordVars>>

\* ... skip_last raises ValueError("Iterator is empty").
SourceEmpty ==
    /\ pc = "DataFrame"
    /\ LET r == skip_last_next(gen, bovespa_file)
       IN  /\ r.out = "raise"
           /\ gen' = r.gen
           /\ bovespa_file' = ExitWith(r.file)
           /\ result' = <<Unwind(rows, r.exc)>>
           /\ trace' = trace \o r.events
    /\ pc' = "done"
    /\ UNCHANGED <<rows, readerVars, floatVars, recordVars>>

\* ... skip_last returns: the records are complete and
\* return pd.DataFrame(records) leaves the with block.
ReturnTable ==
    /\ pc = "DataFrame"
    /\ LET r == skip_last_next(gen, bovespa_file)
       IN  /\ r.out = "return"
           /\ gen' = r.gen
           /\ bovespa_file' = ExitWith(r.file)
           /\ result' = <<Return(DataFrame(rows))>>
           /\ trace' = trace \o r.events
    /\ pc' = "done"
    /\ UNCHANGED <<rows, readerVars, floatVars, recordVars>>

Next == Open \/ ReadHeader \/ YieldRow \/ RowFails \/ SourceEmpty \/ ReturnTable

Spec == Init /\ [][Next]_vars

-----------------------------------------------------------------------------
(* Properties of read_bovespa_file.                                        *)

Lines    == bovespa_file.lines
NLines   == Len(Lines)
DataIdx  == 2..(NLines - 1)
Done     == pc = "done"
Decoded(i) == read_bovespa_record(Lines[i])
EmptyError == ValueError("Iterator is empty", <<>>)

IsRead(e)   == e.ev = "read" /\ e.idx > 0
IsYield(e)  == e.ev = "yield"
IsDecode(e) == e.ev = "decode"
Idx(es)     == [k \in 1..Len(es) |-> es[k].idx]
Reads   == Idx(SelectSeq(trace, IsRead))
Yields  == Idx(SelectSeq(trace, IsYield))
Decodes == Idx(SelectSeq(trace, IsDecode))

\* The numbers a+1, ..., a+n in order.
Range(a, n) == [k \in 1..n |-> a + k]

\* C1: for a header, N >= 0 data lines that each decode and a footer, the
\* call returns a table of exactly N rows, row i the decoding of data line
\* i; the header and the footer are never given to the record decoder.
C1_RowsInOrder ==
    /\ \A k \in 1..Len(Decodes) : 1 < Decodes[k] /\ Decodes[k] < NLines
    /\ (Done /\ NLines >= 2 /\ \A i \in DataIdx : Decoded(i).ok) =>
          /\ result[1].ok
          /\ result[1].val.t = "DataFrame"
          /\ Len(result[1].val.v) = NLines - 2
          /\ \A k \in 1..(NLines - 2) : result[1].val.v[k] = Decoded(k + 1).val
          /\ Decodes = Range(1, NLines - 2)

\* A table of two different rows returned for a file whose header and
\* footer do not decode.
C1_Witness ==
    /\ Done /\ NLines = 4
    /\ ~Decoded(1).ok /\ ~Decoded(NLines).ok
    /\ result[1].ok /\ Len(result[1].val.v) = 2
    /\ result[1].val.v[1] # result[1].val.v[2]

\* C2: a file of at most one line (no line left after the header is
\* skipped) fails with ValueError("Iterator is empty"); no table is
\* returned.
C2_EmptyInput ==
    (Done /\ NLines <= 1) =>
        /\ ~result[1].ok
        /\ result[1].exc = EmptyError
        /\ result[1].val = None
        /\ Decodes = <<>>

\* The header-only file has failed.
C2_Witness == Done /\ NLines = 1 /\ ~result[1].ok

\* C3 as stated: the empty-input error is raised whenever no data line is
\* left once the header and the footer are removed, so also for a file of
\* exactly a header and a footer.
C3_NoDataLinesIsError ==
    (Done /\ NLines <= 2) => (~result[1].ok /\ result[1].exc = EmptyError)

\* C3 as the code has it: the empty-input error is raised exactly when no
\* line is left after the header; a header and a footer alone give a table
\* of zero rows.
C3_EmptyOnlyWithoutFooter ==
    Done =>
        /\ (~result[1].ok /\ result[1].exc = EmptyError) <=> NLines <= 1
        /\ NLines = 2 => result[1] = Return(DataFrame(<<>>))

\* The header-and-footer file has returned an empty table.
C3_Witness == Done /\ NLines = 2 /\ result[1] = Return(DataFrame(<<>>))

FirstBad == MinOf({i \in DataIdx : ~Decoded(i).ok})

\* C4: if a data line fails to decode, wherever it is, the call fails with
\* that error and returns no table: the rows decoded before are dropped and
\* the lines after are not decoded.
C4_FailsWhole ==
    (Done /\ \E i \in DataIdx : ~Decoded(i).ok) =>
        /\ ~result[1].ok
        /\ result[1].exc = Decoded(FirstBad).exc
        /\ result[1].val = None
        /\ Decodes = Range(1, FirstBad - 1)

\* A bad line between two good ones: one row was decoded before the call
\* failed.
C4_Witness ==
    /\ Done /\ NLines = 5
    /\ Decoded(2).ok /\ ~Decoded(3).ok /\ Decoded(4).ok
    /\ ~result[1].ok /\ Len(rows) = 1

\* C5: in every terminal state the file is closed, whichever way the call
\* ended; every line was read while the file was open, and a table is
\* returned only after the generator is exhausted.
C5_ClosedOnExit ==
    /\ Done => bovespa_file.state = "closed"
    /\ bovespa_file.state = "closed" => Done
    /\ \A k \in 1..Len(trace) : trace[k].open
    /\ (Done /\ result[1].ok) => gen.state = "finished"

\* The call has failed on a line with the generator still suspended, and
\* the file is closed.
C5_Witness ==
    /\ Done /\ ~result[1].ok /\ result[1].exc # EmptyError
    /\ gen.state = "suspended"
    /\ bovespa_file.state = "closed"

\* The read of line i happened before position p of the trace.
ReadBefore(i, p) == \E q \in 1..(p - 1) : IsRead(trace[q]) /\ trace[q].idx = i

\* C9: skip_last keeps one pending element: an element is yielded only
\* after the element that follows it was read; elements are yielded in
\* source order, none lost, none twice; at the end of the source the pending
\* element is dropped, so a source of L >= 1 elements (the lines after the
\* header) yields its first L - 1.
C9_Lookahead ==
    /\ Yields = Range(1, Len(Yields))
    /\ Reads = Range(1, Len(Reads))
    /\ \A p \in 1..Len(trace) :
          IsYield(trace[p]) => ReadBefore(trace[p].idx + 1, p)
    /\ gen.state = "suspended" =>
          /\ Len(Reads) = Len(Yields) + 1
          /\ gen.next_value = [idx |-> Len(Yields) + 1,
                               text |-> Lines[Len(Yields) + 1]]
          /\ gen.element = [idx |-> Len(Yields) + 2,
                            text |-> Lines[Len(Yields) + 2]]
    /\ (gen.state = "finished" /\ NLines >= 2) =>
          /\ Len(Reads) = NLines - 1
          /\ Yields = Range(1, NLines - 2)

\* The generator has ended after yielding two elements and dropping the
\* third.
C9_Witness ==
    /\ gen.state = "finished"
    /\ NLines = 4 /\ Len(Yields) = 2 /\ Len(Reads) = 3

====
